---- MODULE Spec2Model ----
(***************************************************************************)
(* A model of secret_santa.py: load_participants, filter_valid_pairs and   *)
(* secret_santa_draw.                                                      *)
(*                                                                         *)
(* Row indices are the 0-based labels of the DataFrame's RangeIndex, as in *)
(* the source.  random.shuffle draws one of the permutations of the        *)
(* candidate list; the loop then visits the list in that order.  The model *)
(* reveals the permutation one element per iteration: the next element of  *)
(* the shuffled list is any candidate the loop has not visited yet (todo). *)
(* Every permutation is one behaviour of the model and conversely.         *)
(***************************************************************************)
EXTENDS Integers, Sequences, FiniteSets, TLC

\* Largest number of rows of an enumerated sheet.
MaxN == 3

\* Python's None, and the float nan pandas holds for a blank cell.
None == "None"
NaN == "NaN"
\* A blank cell of the sheet.
Blank == "Blank"
\* The category labels written in the sheets.
Labels == {"A", "B", "C"}

\* The program only compares labels, so a sheet uses them in the order of
\* their first appearance: "B" below an "A", "C" below a "B".
FirstUse(cells) ==
  \A k \in 1..Len(cells) :
    /\ cells[k] = "B" => \E j \in 1..(k - 1) : cells[j] = "A"
    /\ cells[k] = "C" => \E j \in 1..(k - 1) : cells[j] = "B"

\* The identity columns of row i: rows 2k and 2k+1 share their NOM, rows of
\* the same parity share their Prenom, and no two rows share both.
NomOf(i) == <<"Dupont", "Martin", "Durand", "Petit">>[(i \div 2) + 1]
PrenomOf(i) == <<"Alice", "Bob">>[(i % 2) + 1]

\* A sheet with the Categorie column, one cell per row.
SheetWith(cells) ==
  [columns |-> {"NOM", "Prenom", "Categorie"},
   rows |-> [k \in 1..Len(cells) |->
               [NOM |-> NomOf(k - 1), Prenom |-> PrenomOf(k - 1),
                Categorie |-> cells[k]]]]

\* A sheet of n rows without the Categorie column.
SheetWithout(n) ==
  [columns |-> {"NOM", "Prenom"},
   rows |-> [k \in 1..n |-> [NOM |-> NomOf(k - 1), Prenom |-> PrenomOf(k - 1)]]]

\* The four-participant scenario: two rows of one category, two of another.
ScenarioFile == SheetWith(<<"A", "A", "B", "B">>)

\* The sheets the program is run on.
Files ==
  {SheetWith(cells) :
     cells \in {c \in UNION {[1..n -> Labels \cup {Blank}] : n \in 0..MaxN} : FirstUse(c)}}
    \cup {SheetWithout(n) : n \in 0..MaxN}
    \cup {ScenarioFile}

VARIABLES
  file,          \* the Excel sheet at file_path
  pc,            \* position in main / secret_santa_draw
  participants,  \* the DataFrame load_participants returned
  pairs,         \* the candidate list filter_valid_pairs returned
  todo,          \* positions of pairs the loop has not visited yet
  matched,       \* the dict matched, as its items in insertion order
  results,       \* the list secret_santa_draw returned
  nshuffle       \* number of calls of random.shuffle

vars == <<file, pc, participants, pairs, todo, matched, results, nshuffle>>

----------------------------------------------------------------------------
\* pandas

\* pd.read_excel: a blank cell is read as nan, any other cell as its value.
read_excel(f) ==
  [columns |-> f.columns,
   rows |-> [k \in 1..Len(f.rows) |->
               [c \in DOMAIN f.rows[k] |->
                  IF f.rows[k][c] = Blank THEN NaN ELSE f.rows[k][c]]]]

\* df[col] = value
SetColumn(df, col, value) ==
  [columns |-> df.columns \cup {col},
   rows |-> [k \in 1..Len(df.rows) |->
               [c \in DOMAIN df.rows[k] \cup {col} |->
                  IF c = col THEN value ELSE df.rows[k][c]]]]

\* len(df) and df.iloc[i]
len(df) == Len(df.rows)
iloc(df, i) == df.rows[i + 1]

\* Python's a != b on cell values: nan differs from every value, itself
\* included; None and strings compare by value.
PyNe(a, b) == IF a = NaN \/ b = NaN THEN TRUE ELSE a # b

----------------------------------------------------------------------------
\* load_participants

load_participants(f) ==
  LET df == read_excel(f)
  IN IF "Categorie" \notin df.columns THEN SetColumn(df, "Categorie", None) ELSE df

----------------------------------------------------------------------------
\* filter_valid_pairs

\* Line 36 without the category test.
ValidPair_NoCategory(giver, receiver) ==
  PyNe(giver.NOM, receiver.NOM) \/ PyNe(giver.Prenom, receiver.Prenom)

\* Line 36 without the identity test.
ValidPair_NoIdentity(giver, receiver) ==
  PyNe(giver.Categorie, receiver.Categorie)

\* Line 36 with "and" between the two name tests.
ValidPair_BothNamesDiffer(giver, receiver) ==
  /\ (PyNe(giver.NOM, receiver.NOM) /\ PyNe(giver.Prenom, receiver.Prenom))
  /\ PyNe(giver.Categorie, receiver.Categorie)

\* The condition of line 36 on the rows giver and receiver.
ValidPair(giver, receiver) ==
  /\ (PyNe(giver.NOM, receiver.NOM) \/ PyNe(giver.Prenom, receiver.Prenom))
  /\ PyNe(giver.Categorie, receiver.Categorie)

\* The pairs (i, j) in the order the two nested loops visit them.
IterPairs(df) ==
  [k \in 1..(len(df) * len(df)) |-> <<(k - 1) \div len(df), (k - 1) % len(df)>>]

KeepPair(df, p) == ValidPair(iloc(df, p[1]), iloc(df, p[2]))

filter_valid_pairs(df) ==
  SelectSeq(IterPairs(df), LAMBDA p : KeepPair(df, p))

----------------------------------------------------------------------------
\* secret_santa_draw

\* matched.keys() and matched.values()
Keys(m) == {m[k][1] : k \in 1..Len(m)}
Values(m) == {m[k][2] : k \in 1..Len(m)}

\* Line 55 without the receiver test.
CanCommit_GiverOnly(m, giver, receiver) == giver \notin Keys(m)

\* Line 55 without the giver test.
CanCommit_ReceiverOnly(m, giver, receiver) == receiver \notin Values(m)

\* The condition of line 55.
CanCommit(m, giver, receiver) == giver \notin Keys(m) /\ receiver \notin Values(m)

\* matched[giver] = receiver, for a giver that is not a key yet or is one.
SetItem(m, giver, receiver) ==
  IF giver \in Keys(m)
    THEN [k \in 1..Len(m) |-> IF m[k][1] = giver THEN <<giver, receiver>> ELSE m[k]]
    ELSE Append(m, <<giver, receiver>>)

\* One iteration of the loop body on the pair (giver, receiver): lines 55-56.
Commit(m, giver, receiver) ==
  IF CanCommit(m, giver, receiver) THEN SetItem(m, giver, receiver) ELSE m

\* Line 57 breaking one pair early.
Complete_OffByOne(m, df) == Len(m) >= len(df) - 1

\* The break condition of line 57.
Complete(m, df) == Len(m) = len(df)

\* The list comprehension of line 63.
BuildResults(m, df) ==
  [k \in 1..Len(m) |-> <<iloc(df, m[k][1]), iloc(df, m[k][2])>>]

----------------------------------------------------------------------------
\* The program

Init ==
  /\ file \in Files
  /\ pc = "load"
  /\ participants = [columns |-> {}, rows |-> <<>>]
  /\ pairs = <<>>
  /\ todo = {}
  /\ matched = <<>>
  /\ results = <<>>
  /\ nshuffle = 0

\* main, line 120
Load ==
  /\ pc = "load"
  /\ participants' = load_participants(file)
  /\ pc' = "draw"
  /\ UNCHANGED <<file, pairs, todo, matched, results, nshuffle>>

\* secret_santa_draw, lines 50-52
Draw ==
  /\ pc = "draw"
  /\ pairs' = filter_valid_pairs(participants)
  /\ todo' = 1..Len(pairs')
  /\ nshuffle' = nshuffle + 1
  /\ matched' = <<>>
  /\ pc' = "scan"
  /\ UNCHANGED <<file, participants, results>>

\* The loop without the break of lines 57-58.
Scan_NoBreak ==
  /\ pc = "scan"
  /\ \E k \in todo :
       /\ matched' = Commit(matched, pairs[k][1], pairs[k][2])
       /\ todo' = todo \ {k}
  /\ pc' = "scan"
  /\ UNCHANGED <<file, participants, pairs, results, nshuffle>>

\* secret_santa_draw, lines 54-58: one iteration of the loop
Scan ==
  /\ pc = "scan"
  /\ \E k \in todo :
       /\ matched' = Commit(matched, pairs[k][1], pairs[k][2])
       /\ todo' = todo \ {k}
  /\ pc' = IF Complete(matched', participants) THEN "check" ELSE "scan"
  /\ UNCHANGED <<file, participants, pairs, results, nshuffle>>

\* secret_santa_draw, line 54: the list is exhausted
LoopEnd ==
  /\ pc = "scan"
  /\ todo = {}
  /\ pc' = "check"
  /\ UNCHANGED <<file, participants, pairs, todo, matched, results, nshuffle>>

\* Lines 60-61 returning what was matched instead of raising.
Raise_ReturnsPartial ==
  /\ pc = "check"
  /\ Len(matched) # len(participants)
  /\ results' = BuildResults(matched, participants)
  /\ pc' = "returned"
  /\ UNCHANGED <<file, participants, pairs, todo, matched, nshuffle>>

\* secret_santa_draw, lines 60-61
Raise ==
  /\ pc = "check"
  /\ Len(matched) # len(participants)
  /\ pc' = "raised"
  /\ UNCHANGED <<file, participants, pairs, todo, matched, results, nshuffle>>

\* Lines 63-64 reached without the test of line 60.
Return_Unchecked ==
  /\ pc = "check"
  /\ results' = BuildResults(matched, participants)
  /\ pc' = "returned"
  /\ UNCHANGED <<file, participants, pairs, todo, matched, nshuffle>>

\* secret_santa_draw, lines 63-64
Return ==
  /\ pc = "check"
  /\ ~(Len(matched) # len(participants))
  /\ results' = BuildResults(matched, participants)
  /\ pc' = "returned"
  /\ UNCHANGED <<file, participants, pairs, todo, matched, nshuffle>>

Next == Load \/ Draw \/ Scan \/ LoopEnd \/ Raise \/ Return

Spec == Init /\ [][Next]_vars

----------------------------------------------------------------------------
\* Vocabulary of the properties

\* The program has loaded the sheet.
Loaded == pc # "load"
\* filter_valid_pairs has run.
Drawn == pc \in {"scan", "check", "returned", "raised"}

NumParticipants == len(participants)
Indices == 0..(NumParticipants - 1)
Row(i) == iloc(participants, i)

\* Two rows name the same person.
SameIdentity(a, b) == a.NOM = b.NOM /\ a.Prenom = b.Prenom

\* Two rows carry the same category: the same label, or both the None of a
\* sheet without the column.  A blank cell carries no category.
SameCategory(a, b) == a.Categorie = b.Categorie /\ a.Categorie # NaN

\* A row whose category is unset: None (no column) or nan (blank cell).
Uncategorized(a) == a.Categorie \in {None, NaN}

\* The ordered pairs of indices the constraints allow.
Allowed ==
  {p \in Indices \X Indices :
     ~SameIdentity(Row(p[1]), Row(p[2])) /\ ~SameCategory(Row(p[1]), Row(p[2]))}

\* Rows i, i+1, ... can each be given a receiver outside used, all different,
\* along pairs of allowed.
RECURSIVE CanMatchFrom(_, _, _)
CanMatchFrom(i, used, allowed) ==
  \/ i \notin Indices
  \/ \E j \in Indices \ used :
       <<i, j>> \in allowed /\ CanMatchFrom(i + 1, used \cup {j}, allowed)

\* A perfect matching exists under the constraints.
Feasible == CanMatchFrom(0, {}, Allowed)

\* The elements of a sequence.
Range(s) == {s[k] : k \in 1..Len(s)}

----------------------------------------------------------------------------
C2_Bijection ==
  pc = "returned" =>
    /\ Len(results) = NumParticipants
    /\ \A i \in Indices :
         /\ Cardinality({k \in 1..Len(results) : results[k][1] = Row(i)}) = 1
         /\ Cardinality({k \in 1..Len(results) : results[k][2] = Row(i)}) = 1
    /\ Keys(matched) = Indices
    /\ Values(matched) = Indices

\* A draw of three participants of three different categories has returned.
C2_Witness ==
  /\ pc = "returned"
  /\ file = SheetWith(<<"A", "B", "C">>)
  /\ Len(results) = 3

\* C3: a call ends returned with an assignment of size N, or raised with
\* fewer than N committed pairs after the whole candidate list was scanned and
\* with nothing returned; nothing is returned before, the list is shuffled at
\* most once, the call can always go on until one of the two outcomes, and
\* nothing happens after either outcome.
C3_StateInv ==
  /\ pc = "returned" => Len(results) = NumParticipants /\ Len(matched) = NumParticipants
  /\ pc = "raised" => results = <<>> /\ Len(matched) < NumParticipants /\ todo = {}
  /\ pc # "returned" => results = <<>>
  /\ nshuffle <= 1
  /\ pc \in {"returned", "raised"} => nshuffle = 1
  /\ pc \notin {"returned", "raised"} => ENABLED Next

C3_Outcomes == []C3_StateInv /\ [][pc \notin {"returned", "raised"}]_vars

\* A draw was raised with a partial assignment, which is not returned.
C3_Witness ==
  /\ pc = "raised"
  /\ Len(matched) > 0
  /\ results = <<>>

\* C4: on the four-participant sheet of categories A, A, B, B the draw never
\* raises, and every committed and every returned pair joins a participant of
\* A with one of B (row 0 is never paired with row 1).
C4_Scenario ==
  file = ScenarioFile =>
    /\ pc # "raised"
    /\ pc = "check" => Len(matched) = 4
    /\ \A k \in 1..Len(matched) :
         {Row(matched[k][1]).Categorie, Row(matched[k][2]).Categorie} = {"A", "B"}
    /\ \A k \in 1..Len(results) :
         /\ {results[k][1].Categorie, results[k][2].Categorie} = {"A", "B"}
         /\ {results[k][1], results[k][2]} # {Row(0), Row(1)}

\* The scenario draw has returned its four pairs.
C4_Witness ==
  /\ file = ScenarioFile
  /\ pc = "returned"
  /\ Len(results) = 4

C6_UnsetSameCategory ==
  /\ Drawn =>
       \A k \in 1..Len(pairs) :
         ~(Uncategorized(Row(pairs[k][1])) /\ Uncategorized(Row(pairs[k][2])))
  /\ pc = "returned" =>
       /\ \A k \in 1..Len(results) :
            ~(Uncategorized(results[k][1]) /\ Uncategorized(results[k][2]))
       /\ ~(NumParticipants >= 1 /\ \A i \in Indices : Uncategorized(Row(i)))

\* C7: the list filter_valid_pairs returns holds exactly the ordered pairs of
\* indices whose rows differ in identity and in category, each once; it holds
\* no (i, i), no pair of one category, and (j, i) whenever it holds (i, j).
\* The list is built by the call of line 50 and its content is whatever that
\* call returned from then on.
C7_Exact(ps) ==
  /\ Range(ps) = Allowed
  /\ Cardinality(Range(ps)) = Len(ps)
  /\ \A k \in 1..Len(ps) :
       /\ ps[k][1] # ps[k][2]
       /\ ~SameCategory(Row(ps[k][1]), Row(ps[k][2]))
       /\ <<ps[k][2], ps[k][1]>> \in Range(ps)

C8_Original ==
  (Loaded /\ NumParticipants <= 1) => pc # "returned"

\* C8, amended: with one participant the draw never returns and ends raised;
\* with zero participants it never raises and returns the empty assignment.
C8_Amended ==
  /\ (Loaded /\ NumParticipants = 1) =>
       /\ pc # "returned"
       /\ Drawn => pairs = <<>> /\ matched = <<>>
  /\ (Loaded /\ NumParticipants = 0) =>
       /\ pc # "raised"
       /\ results = <<>>
       /\ matched = <<>>

\* The draw of a single participant has raised.
C8_Witness ==
  /\ pc = "raised"
  /\ NumParticipants = 1

\* C9: the draw raises only at a dead end of the first-fit scan: the whole
\* list was scanned and no candidate pair can be added to the assignment; for
\* three participants of three categories, where a perfect matching exists,
\* that dead end is two participants assigned to each other.
ThreeCategories ==
  /\ NumParticipants = 3
  /\ \A i, j \in Indices : i # j => ~SameCategory(Row(i), Row(j))

C9_GreedyDeadEnd ==
  pc = "raised" =>
    /\ todo = {}
    /\ \A k \in 1..Len(pairs) :
         pairs[k][1] \in Keys(matched) \/ pairs[k][2] \in Values(matched)
    /\ ThreeCategories =>
         /\ Feasible
         /\ Len(matched) = 2
         /\ matched[2] = <<matched[1][2], matched[1][1]>>

\* The draw has raised on three participants of three labels, for whom a
\* perfect matching exists.
C9_Witness ==
  /\ pc = "raised"
  /\ file = SheetWith(<<"A", "B", "C">>)
  /\ Feasible

\* C10: each iteration commits its pair iff the giver is not a key and the
\* receiver is not a value of the assignment; the assignment is always an
\* injective partial map of candidate pairs of size at most N, it only grows,
\* and no candidate is examined once its size is N.
C10_StateInv ==
  /\ Cardinality(Keys(matched)) = Len(matched)
  /\ Cardinality(Values(matched)) = Len(matched)
  /\ Range(matched) \subseteq Range(pairs)
  /\ Range(matched) \subseteq Allowed
  /\ Len(matched) <= NumParticipants

C10_Step ==
  /\ Len(matched') >= Len(matched)
  /\ SubSeq(matched', 1, Len(matched)) = matched
  /\ (todo' # todo /\ todo' \subseteq todo) =>
       LET k == CHOOSE x \in todo : x \notin todo'
           giver == pairs[k][1]
           receiver == pairs[k][2]
           free == giver \notin Keys(matched) /\ receiver \notin Values(matched)
       IN /\ pc = "scan"
          /\ Len(matched) < NumParticipants
          /\ free => matched' = Append(matched, <<giver, receiver>>)
          /\ ~free => matched' = matched

C10_Greedy == []C10_StateInv /\ [][C10_Step]_vars

\* The scan has committed a pair and rejected another.
C10_Witness ==
  /\ pc = "scan"
  /\ Len(matched) >= 1
  /\ Cardinality(todo) + Len(matched) < Len(pairs)

====
